---------------------------- MODULE Spec2Model ----------------------------
(***************************************************************************)
(* A model of psrqpy/utils.py: the catalogue loader get_catalogue() and    *)
(* the query function condition().                                         *)
(*                                                                         *)
(* Tokens are strings, as in the source.  A number (a Python float) is     *)
(* kept as an exact decimal m * 10^e with m stripped of trailing zeros, so *)
(* that two numbers are equal exactly when their records are equal.        *)
(***************************************************************************)
EXTENDS Integers, Sequences, FiniteSets, TLC

(***************************************************************************)
(* Bounds of the model.                                                    *)
(***************************************************************************)
\* number of lines of the catalogue file that are scanned
MaxLines == 5

\* number of digits after the decimal point of a value token
MaxPlaces == 5

\* largest exponent of a value token
MaxExponent == 2

\* number of tokens of a query
MaxTokens == 8

\* number of rows of the table that is queried
MaxRows == 2

(***************************************************************************)
(* Strings.                                                                *)
(***************************************************************************)
\* s[j-1] of Python: the j-th character (1-based) of s
Char(s, j) == SubSeq(s, j, j)

Digits == {"0", "1", "2", "3", "4", "5", "6", "7", "8", "9"}

DigitVal(c) ==
    CASE c = "0" -> 0 [] c = "1" -> 1 [] c = "2" -> 2 [] c = "3" -> 3
      [] c = "4" -> 4 [] c = "5" -> 5 [] c = "6" -> 6 [] c = "7" -> 7
      [] c = "8" -> 8 [] c = "9" -> 9

\* the positions (1-based) of the characters of s that are in the set cs
Positions(s, cs) == {j \in 1..Len(s) : Char(s, j) \in cs}

Min(S) == CHOOSE x \in S : \A y \in S : x <= y

\* str.find(c): the 0-based index of the first c in s, -1 when there is none
Find(s, c) == IF Positions(s, {c}) = {} THEN -1 ELSE Min(Positions(s, {c})) - 1

\* c in s
Contains(s, c) == Positions(s, {c}) # {}

\* str.split(sep) and re.split('a|b|..', s) for one-character separators:
\* the pieces of s between the characters of seps, empty pieces included
RECURSIVE SplitFrom(_, _, _, _)
SplitFrom(s, seps, j, cur) ==
    IF j > Len(s) THEN <<cur>>
    ELSE IF Char(s, j) \in seps
         THEN <<cur>> \o SplitFrom(s, seps, j + 1, "")
         ELSE SplitFrom(s, seps, j + 1, cur \o Char(s, j))

Split(s, seps) == SplitFrom(s, seps, 1, "")

Last(seq) == seq[Len(seq)]

AllDigits(s) == \A j \in 1..Len(s) : Char(s, j) \in Digits

\* the value of a string of decimal digits
RECURSIVE DigitsVal(_)
DigitsVal(s) ==
    IF Len(s) = 0 THEN 0
    ELSE 10 * DigitsVal(SubSeq(s, 1, Len(s) - 1)) + DigitVal(Char(s, Len(s)))

(***************************************************************************)
(* Numbers: float() and int() of Python on the tokens of a catalogue.      *)
(***************************************************************************)
HasSign(s) == Len(s) > 0 /\ Char(s, 1) \in {"-", "+"}

Unsigned(s) == IF HasSign(s) THEN SubSeq(s, 2, Len(s)) ELSE s

SignOf(s) == IF Len(s) > 0 /\ Char(s, 1) = "-" THEN -1 ELSE 1

\* int(s) succeeds: an optional sign and at least one digit
IsInt(s) == Len(Unsigned(s)) > 0 /\ AllDigits(Unsigned(s))

IntVal(s) == SignOf(s) * DigitsVal(Unsigned(s))

\* the mantissa of a float literal: digits with at most one point
IsMantissa(s) ==
    /\ \A j \in 1..Len(s) : Char(s, j) \in Digits \cup {"."}
    /\ Cardinality(Positions(s, {"."})) <= 1
    /\ Positions(s, Digits) # {}

\* float(s) succeeds: [sign] mantissa [(e|E) [sign] digits]
IsFloat(s) ==
    LET parts == Split(Unsigned(s), {"e", "E"})
    IN  /\ Len(parts) \in {1, 2}
        /\ IsMantissa(parts[1])
        /\ Len(parts) = 2 => IsInt(parts[2])

RECURSIVE Pow10(_)
Pow10(n) == IF n = 0 THEN 1 ELSE 10 * Pow10(n - 1)

\* the decimal m * 10^e with the trailing zeros of m moved into e
RECURSIVE Norm(_, _)
Norm(m, e) ==
    IF m = 0 THEN [m |-> 0, e |-> 0]
    ELSE IF m % 10 = 0 THEN Norm(m \div 10, e + 1)
    ELSE [m |-> m, e |-> e]

\* the characters of s other than c
RECURSIVE Without(_, _)
Without(s, c) ==
    IF Len(s) = 0 THEN ""
    ELSE (IF Char(s, 1) = c THEN "" ELSE Char(s, 1)) \o Without(SubSeq(s, 2, Len(s)), c)

\* float(s), for a string s that converts
FloatVal(s) ==
    LET parts == Split(Unsigned(s), {"e", "E"})
        mant  == parts[1]
        dp    == Find(mant, ".")
        frac  == IF dp = -1 THEN 0 ELSE Len(mant) - dp - 1
        ex    == IF Len(parts) = 2 THEN IntVal(parts[2]) ELSE 0
    IN  Norm(SignOf(s) * DigitsVal(Without(mant, ".")), ex - frac)

\* a / b of two decimals, b a power of ten
NumDiv(a, b) == Norm(a.m, a.e - b.e)

\* 10**n
TenTo(n) == [m |-> 1, e |-> n]

(***************************************************************************)
(* Values of a record and dictionaries.                                    *)
(***************************************************************************)
\* a float, a str and None, as values held by a record or a table
NumV(n) == [t |-> "num", s |-> "", m |-> n.m, e |-> n.e]

StrV(s) == [t |-> "str", s |-> s, m |-> 0, e |-> 0]

None == [t |-> "none", s |-> "", m |-> 0, e |-> 0]

\* {} of Python
EmptyDict == [k \in {} |-> None]

\* d[k] = v on a copy of the dictionary d
Put(d, k, v) == [x \in (DOMAIN d) \cup {k} |-> IF x = k THEN v ELSE d[x]]

\* a variant that assigns whether or not the key is there
PutIfAbsent_Overwrite(d, k, v) == Put(d, k, v)

\* if k not in d.keys(): d[k] = v
PutIfAbsent(d, k, v) == IF k \in DOMAIN d THEN d ELSE Put(d, k, v)

(***************************************************************************)
(* get_catalogue: the state.                                               *)
(***************************************************************************)
VARIABLES
    pc,        \* where get_catalogue is: "scan", "derive", "fill", "table",
               \* "done" (returned) or "error" (raised)
    psrlist,   \* the list of dictionaries, one for each pulsar
    formats,   \* the dictionary of formats for each parameter
    dataline,  \* the tokens of the line scanned last
    nlines,    \* the number of lines scanned
    nbreak,    \* the number of break lines among them
    dropped,   \* the entry removed by "del psrlist[-1]", <<>> before that
    psrtable,  \* the rows of the table returned, <<>> before that
    raised     \* the exception raised, "" when none

catvars == <<pc, psrlist, formats, dataline, nlines, nbreak, dropped, psrtable, raised>>

(***************************************************************************)
(* condition: the state.                                                   *)
(***************************************************************************)
VARIABLES
    cpc,         \* where condition is: "idle" (not called), "enter", "loop",
                 \* "eval", "done" (returned) or "error" (raised)
    table,       \* the argument table: its type, column names and rows
    expression,  \* the argument expression: its type and its content
    exactMatch,  \* the argument exactMatch
    tokens,      \* the tokens of the expression
    i,           \* the cursor of the loop over the tokens (0-based)
    newtokens,   \* the tokens of the query handed to the evaluator
    tab,         \* the DataFrame that is queried
    newtab,      \* the table returned, << >> before that
    cwarn,       \* the warnings emitted
    craised      \* the exception raised, "" when none

condvars == <<cpc, table, expression, exactMatch, tokens, i, newtokens, tab, newtab,
              cwarn, craised>>

breakstring == "@"

commentstring == "#"

\* a variant that compares the whole first token with the marker
IsCommentLine_WholeToken(line) == Len(line) > 0 /\ line[1] = commentstring

IsCommentLine(line) == Len(line) > 0 /\ Char(line[1], 1) = commentstring

IsBreakLine(line) ==
    Len(line) > 0 /\ ~IsCommentLine(line) /\ Char(line[1], 1) = breakstring

IsDataLine(line) == Len(line) > 0 /\ ~IsCommentLine(line) /\ ~IsBreakLine(line)

(***************************************************************************)
(* The decoding of a data line (lines 111-169).                            *)
(***************************************************************************)
\* val = dataline[1].split(':')[-1]
ValPart(valtok) == Last(Split(valtok, {":"}))

\* a variant that counts the decimal point among the places
ScaleExp_OffByOne(valtok, errtok) ==
    IF Char(errtok, 1) = "-" \/ Contains(errtok, ".")
    THEN 0
    ELSE LET valsplit == Split(ValPart(valtok), {"e", "E", "d", "D"})
             expo     == IF Len(valsplit) = 2 THEN -IntVal(valsplit[2]) ELSE 0
             dpidx    == Find(valsplit[1], ".")
             places   == IF dpidx # -1 THEN Len(valsplit[1]) - dpidx ELSE 0
         IN  expo + places

\* a variant that scales by the exponent instead of its inverse
ScaleExp_ExponentSign(valtok, errtok) ==
    IF Char(errtok, 1) = "-" \/ Contains(errtok, ".")
    THEN 0
    ELSE LET valsplit == Split(ValPart(valtok), {"e", "E", "d", "D"})
             expo     == IF Len(valsplit) = 2 THEN IntVal(valsplit[2]) ELSE 0
             dpidx    == Find(valsplit[1], ".")
             places   == IF dpidx # -1 THEN Len(valsplit[1]) - dpidx - 1 ELSE 0
         IN  expo + places

\* the exponent of ten of scalefac (scalefac is 1. or a power of ten)
ScaleExp(valtok, errtok) ==
    IF Char(errtok, 1) = "-" \/ Contains(errtok, ".")
    THEN 0
    ELSE LET valsplit == Split(ValPart(valtok), {"e", "E", "d", "D"})
             expo     == IF Len(valsplit) = 2 THEN -IntVal(valsplit[2]) ELSE 0
             dpidx    == Find(valsplit[1], ".")
             places   == IF dpidx # -1 THEN Len(valsplit[1]) - dpidx - 1 ELSE 0
         IN  expo + places

\* float(dataline[2])/scalefac
ErrValue(valtok, errtok) == NumDiv(FloatVal(errtok), TenTo(ScaleExp(valtok, errtok)))

\* lines 111-118: the value of the field
BaseValue(line) == IF IsFloat(line[2]) THEN NumV(FloatVal(line[2])) ELSE StrV(line[2])

BaseFormat(line) == IF IsFloat(line[2]) THEN "float64" ELSE "unicode"

\* a variant that tests the first colon-separated part of the value
DecodeRaises_FirstPart(line) ==
    Len(line) > 2 /\ IsFloat(line[3]) /\ ~IsFloat(Split(line[2], {":"})[1])

\* line 137 raises: the third token is a float and the value is not
DecodeRaises(line) ==
    Len(line) > 2 /\ IsFloat(line[3]) /\ ~IsFloat(ValPart(line[2]))

\* a variant that keeps a numeric third token as the reference as well
DecodeExtra_ThirdIsAlsoRef(psr, line) ==
    LET field == line[1]
        third == IF Len(line) > 2
                 THEN IF IsFloat(line[3])
                      THEN Put(Put(psr, field \o "_ERR", NumV(ErrValue(line[2], line[3]))),
                               field \o "_REF", StrV(line[3]))
                      ELSE Put(psr, field \o "_REF", StrV(line[3]))
                 ELSE psr
    IN  IF Len(line) > 3 THEN Put(third, field \o "_REF", StrV(line[4])) ELSE third

\* a variant in which a reference taken from the third token is kept
DecodeExtra_FourthKeepsThird(psr, line) ==
    LET field == line[1]
        third == IF Len(line) > 2
                 THEN IF IsFloat(line[3])
                      THEN Put(psr, field \o "_ERR", NumV(ErrValue(line[2], line[3])))
                      ELSE Put(psr, field \o "_REF", StrV(line[3]))
                 ELSE psr
    IN  IF Len(line) > 3 /\ IsFloat(line[3])
        THEN Put(third, field \o "_REF", StrV(line[4]))
        ELSE third

\* lines 120-169 on the record psr, for a line that does not raise
DecodeExtra(psr, line) ==
    LET field == line[1]
        third == IF Len(line) > 2
                 THEN IF IsFloat(line[3])
                      THEN Put(psr, field \o "_ERR", NumV(ErrValue(line[2], line[3])))
                      ELSE Put(psr, field \o "_REF", StrV(line[3]))
                 ELSE psr
    IN  IF Len(line) > 3 THEN Put(third, field \o "_REF", StrV(line[4])) ELSE third

RegisterExtra(fmts, line) ==
    LET field == line[1]
        third == IF Len(line) > 2
                 THEN IF IsFloat(line[3])
                      THEN PutIfAbsent(fmts, field \o "_ERR", "float64")
                      ELSE PutIfAbsent(fmts, field \o "_REF", "unicode")
                 ELSE fmts
    IN  IF Len(line) > 3 THEN PutIfAbsent(third, field \o "_REF", "unicode") ELSE third

\* psrlist with its last entry replaced
SetLast(list, psr) == [list EXCEPT ![Len(list)] = psr]

(***************************************************************************)
(* The lines of a catalogue file, after line.split().                      *)
(***************************************************************************)
CommentLines == {<<"#CATALOGUE">>, <<"#F0", "1.5", "3">>}

BreakLines == {<<"@-----">>, <<"@", "F0", "7", "2">>}

DataLines ==
    { <<"PSRJ", "J0001">>, <<"PSRJ", "J0002", "ref1">>,
      <<"PSRB", "B0001">>,
      <<"F0", "1.5", "3">>, <<"F0", "2", "ref1", "ref2">>, <<"F0", "1.2E-2", "5", "ref2">>,
      <<"F0", "2", "ref1", "7">>,
      <<"F0", "abc">>,
      <<"RAJ", "12:30">>, <<"RAJ", "12:xx">>, <<"RAJ", "12:30:0x", "3">>,
      <<"DECJ", "-28:30:36.5", "5">>, <<"DECJ", "bad">>,
      <<"ASSOC">> }

\* a line without a token: line.split() of a blank line
BlankLines == {<< >>}

CatLines == CommentLines \cup BreakLines \cup DataLines \cup BlankLines

(***************************************************************************)
(* get_catalogue: the scan of the lines (lines 93-169).                    *)
(***************************************************************************)
\* condition is not called
CondIdle ==
    /\ cpc = "idle"
    /\ table = [type |-> "Table", cols |-> {}, rows |-> << >>]
    /\ expression = [type |-> "str", tokens |-> << >>, dtype |-> "", mask |-> << >>]
    /\ exactMatch = FALSE
    /\ tokens = << >>
    /\ i = 0
    /\ newtokens = << >>
    /\ tab = [cols |-> {}, rows |-> << >>]
    /\ newtab = << >>
    /\ cwarn = << >>
    /\ craised = ""

CatInit ==
    /\ pc = "scan"
    /\ psrlist = <<EmptyDict>>
    /\ formats = EmptyDict
    /\ dataline = << >>
    /\ nlines = 0
    /\ nbreak = 0
    /\ dropped = << >>
    /\ psrtable = << >>
    /\ raised = ""
    /\ CondIdle

\* lines 103-104: a comment line is skipped
ScanComment(line) ==
    /\ IsCommentLine(line)
    /\ UNCHANGED <<pc, psrlist, formats, nbreak, raised>>

\* lines 106-109: a break line opens a new entry
ScanBreak(line) ==
    /\ IsBreakLine(line)
    /\ psrlist' = Append(psrlist, EmptyDict)
    /\ nbreak' = nbreak + 1
    /\ UNCHANGED <<pc, formats, raised>>

\* lines 111-169: a data line sets the field and its error and reference
ScanData(line) ==
    /\ IsDataLine(line)
    /\ Len(line) >= 2
    /\ LET base == Put(Last(psrlist), line[1], BaseValue(line))
           fmts == PutIfAbsent(formats, line[1], BaseFormat(line))
       IN  IF DecodeRaises(line)
           THEN /\ psrlist' = SetLast(psrlist, base)
                /\ formats' = fmts
                /\ pc' = "error"
                /\ raised' = "ValueError"
           ELSE /\ psrlist' = SetLast(psrlist, DecodeExtra(base, line))
                /\ formats' = RegisterExtra(fmts, line)
                /\ UNCHANGED <<pc, raised>>
    /\ UNCHANGED nbreak

\* dataline[0][0] of a blank line and dataline[1] of a line of one token
\* raise IndexError
ScanShort(line) ==
    /\ Len(line) = 0 \/ (IsDataLine(line) /\ Len(line) < 2)
    /\ pc' = "error"
    /\ raised' = "IndexError"
    /\ UNCHANGED <<psrlist, formats, nbreak>>

\* one iteration of "for line in dbfile.readlines()", for a line of lines
ScanLineOf(lines) ==
    /\ pc = "scan"
    /\ \E line \in lines :
          /\ dataline' = line
          /\ \/ ScanComment(line)
             \/ ScanBreak(line)
             \/ ScanData(line)
             \/ ScanShort(line)
    /\ nlines' = nlines + 1
    /\ UNCHANGED <<dropped, psrtable>>
    /\ UNCHANGED condvars

ScanLine == nlines < MaxLines /\ ScanLineOf(CatLines)

\* a variant that removes the last entry only when it is empty
DelLast_OnlyEmpty ==
    /\ pc = "scan"
    /\ dropped' = <<Last(psrlist)>>
    /\ psrlist' = IF Last(psrlist) = EmptyDict
                  THEN SubSeq(psrlist, 1, Len(psrlist) - 1)
                  ELSE psrlist
    /\ pc' = "derive"
    /\ UNCHANGED <<formats, dataline, nlines, nbreak, psrtable, raised>>
    /\ UNCHANGED condvars

\* line 171, at the end of the file: del psrlist[-1]
DelLast ==
    /\ pc = "scan"
    /\ dropped' = <<Last(psrlist)>>
    /\ psrlist' = SubSeq(psrlist, 1, Len(psrlist) - 1)
    /\ pc' = "derive"
    /\ UNCHANGED <<formats, dataline, nlines, nbreak, psrtable, raised>>
    /\ UNCHANGED condvars

(***************************************************************************)
(* get_catalogue: RAJD, DECJD and the names (lines 173-206).               *)
(***************************************************************************)
\* SkyCoord accepts a string h:m or h:m:s (d:m, d:m:s) of numbers
IsSexagesimal(s) ==
    LET parts == Split(s, {":"})
    IN  /\ Len(parts) \in {2, 3}
        /\ IsInt(parts[1])
        /\ \A j \in 2..Len(parts) : IsMantissa(parts[j])
        /\ \A j \in 2..(Len(parts) - 1) : AllDigits(parts[j])

\* SkyCoord(psr['RAJ'], psr['DECJ'], ...) raises ValueError: an angle that
\* is neither a float nor a sexagesimal string
IsAngle(v) == v.t = "num" \/ (v.t = "str" /\ IsSexagesimal(v.s))

\* the degrees of an angle, to four decimal places; perunit is 15 for an
\* hour angle and 1 for an angle in degrees
AngleDeg(v, perunit) ==
    IF v.t = "num" THEN Norm(perunit * v.m, v.e)
    ELSE LET parts == Split(v.s, {":"})
             whole == DigitsVal(Unsigned(parts[1]))
             mins  == FloatVal(parts[2])
             secs  == IF Len(parts) = 3 THEN FloatVal(parts[3]) ELSE [m |-> 0, e |-> 0]
             \* x / d to four decimal places, for a decimal x
             Part(x, d) == IF x.e < 0
                           THEN (perunit * x.m * 10000) \div (d * Pow10(-x.e))
                           ELSE (perunit * x.m * Pow10(x.e) * 10000) \div d
         IN  Norm(SignOf(parts[1]) * (perunit * whole * 10000 + Part(mins, 60) + Part(secs, 3600)), -4)

HasCoords(psr) == "RAJ" \in DOMAIN psr /\ "DECJ" \in DOMAIN psr

\* line 179 raises for the entry psr
CoordRaises(psr) == HasCoords(psr) /\ ~(IsAngle(psr["RAJ"]) /\ IsAngle(psr["DECJ"]))

\* lines 178-181
WithCoords(psr) ==
    IF HasCoords(psr)
    THEN Put(Put(psr, "RAJD", NumV(AngleDeg(psr["RAJ"], 15))),
             "DECJD", NumV(AngleDeg(psr["DECJ"], 1)))
    ELSE psr

\* lines 185-187
WithJName(psr) ==
    IF "PSRJ" \in DOMAIN psr
    THEN Put(Put(psr, "JNAME", psr["PSRJ"]), "NAME", psr["PSRJ"])
    ELSE psr

\* a variant in which PSRB always gives the NAME
WithBName_Override(psr) ==
    IF "PSRB" \in DOMAIN psr
    THEN Put(Put(psr, "BNAME", psr["PSRB"]), "NAME", psr["PSRB"])
    ELSE psr

\* lines 190-195
WithBName(psr) ==
    IF "PSRB" \in DOMAIN psr
    THEN LET b == Put(psr, "BNAME", psr["PSRB"])
         IN  IF "NAME" \notin DOMAIN b THEN Put(b, "NAME", psr["PSRB"]) ELSE b
    ELSE psr

\* one iteration of the loop of lines 177-195
DeriveRow(psr) == WithBName(WithJName(WithCoords(psr)))

\* lines 197-206
DeriveFormats(fmts, list) ==
    LET radec == \E j \in 1..Len(list) : HasCoords(list[j])
        jname == \E j \in 1..Len(list) : "PSRJ" \in DOMAIN list[j]
        bname == \E j \in 1..Len(list) : "PSRB" \in DOMAIN list[j]
        f1 == IF radec THEN Put(Put(fmts, "RAJD", "float64"), "DECJD", "float64") ELSE fmts
        f2 == IF jname THEN Put(f1, "JNAME", "unicode") ELSE f1
        f3 == IF bname THEN Put(f2, "BNAME", "unicode") ELSE f2
    IN  IF jname \/ bname THEN Put(f3, "NAME", "unicode") ELSE f3

\* the entries whose coordinates make SkyCoord raise
BadRows(list) == {j \in 1..Len(list) : CoordRaises(list[j])}

\* lines 173-206: the loop stops at the first entry for which SkyCoord raises
Derive ==
    /\ pc = "derive"
    /\ IF BadRows(psrlist) # {}
       THEN /\ psrlist' = [j \in 1..Len(psrlist) |->
                              IF j < Min(BadRows(psrlist)) THEN DeriveRow(psrlist[j])
                              ELSE psrlist[j]]
            /\ pc' = "error"
            /\ raised' = "ValueError"
            /\ UNCHANGED formats
       ELSE /\ psrlist' = [j \in 1..Len(psrlist) |-> DeriveRow(psrlist[j])]
            /\ formats' = DeriveFormats(formats, psrlist)
            /\ pc' = "fill"
            /\ UNCHANGED raised
    /\ UNCHANGED <<dataline, nlines, nbreak, dropped, psrtable>>
    /\ UNCHANGED condvars

(***************************************************************************)
(* get_catalogue: the fill-in of the entries (lines 208-212).              *)
(***************************************************************************)
\* a variant that leaves the entry as it is
FillRow_NoFill(psr, fmts) == psr

FillRow(psr, fmts) ==
    [key \in (DOMAIN psr) \cup (DOMAIN fmts) |-> IF key \in DOMAIN psr THEN psr[key] ELSE None]

FillIn ==
    /\ pc = "fill"
    /\ psrlist' = [j \in 1..Len(psrlist) |-> FillRow(psrlist[j], formats)]
    /\ pc' = "table"
    /\ UNCHANGED <<formats, dataline, nlines, nbreak, dropped, psrtable, raised>>
    /\ UNCHANGED condvars

(***************************************************************************)
(* get_catalogue: the table and the types of its columns (lines 219-235).  *)
(***************************************************************************)
DigitStr(d) ==
    CASE d = 0 -> "0" [] d = 1 -> "1" [] d = 2 -> "2" [] d = 3 -> "3"
      [] d = 4 -> "4" [] d = 5 -> "5" [] d = 6 -> "6" [] d = 7 -> "7"
      [] d = 8 -> "8" [] d = 9 -> "9"

\* the decimal digits of a natural number
RECURSIVE NatStr(_)
NatStr(n) == IF n < 10 THEN DigitStr(n) ELSE NatStr(n \div 10) \o DigitStr(n % 10)

RECURSIVE Zeros(_)
Zeros(n) == IF n <= 0 THEN "" ELSE "0" \o Zeros(n - 1)

\* str() of the float m * 10^e
FloatStr(m, e) ==
    LET sign   == IF m < 0 THEN "-" ELSE ""
        digits == NatStr(IF m < 0 THEN -m ELSE m)
        n      == Len(digits)
        lead   == n - 1 + e
        rest   == SubSeq(digits, 2, n)
        abslead == IF lead < 0 THEN -lead ELSE lead
    IN  IF m = 0 THEN "0.0"
        ELSE IF lead < -4 \/ lead >= 16
        THEN sign \o Char(digits, 1) \o (IF n > 1 THEN "." \o rest ELSE "")
                  \o "e" \o (IF lead < 0 THEN "-" ELSE "+")
                  \o (IF abslead < 10 THEN "0" ELSE "") \o NatStr(abslead)
        ELSE IF e >= 0 THEN sign \o digits \o Zeros(e) \o ".0"
        ELSE IF n + e > 0
        THEN sign \o SubSeq(digits, 1, n + e) \o "." \o SubSeq(digits, n + e + 1, n)
        ELSE sign \o "0." \o Zeros(-(n + e)) \o digits

\* not-a-number, the float that None becomes
NaN == [t |-> "nan", s |-> "", m |-> 0, e |-> 0]

\* astype(np.float64) raises ValueError on a str that is no float
CastRaises(v, fmt) == fmt = "float64" /\ v.t = "str" /\ ~IsFloat(v.s)

\* one value of psrtable[key].astype(formats[key])
Cast(v, fmt) ==
    IF fmt = "float64"
    THEN CASE v.t = "none" -> NaN
           [] v.t = "str"  -> NumV(FloatVal(v.s))
           [] OTHER        -> v
    ELSE CASE v.t = "none" -> StrV("None")
           [] v.t = "num"  -> StrV(FloatStr(v.m, v.e))
           [] OTHER        -> v

\* lines 219-235: Table(data=psrlist) of no entry has no column, so that
\* psrtable[key] raises KeyError
BuildTable ==
    /\ pc = "table"
    /\ IF psrlist = << >> /\ DOMAIN formats # {}
       THEN /\ pc' = "error"
            /\ raised' = "KeyError"
            /\ UNCHANGED psrtable
       ELSE IF \E j \in 1..Len(psrlist) : \E key \in DOMAIN formats :
                  CastRaises(psrlist[j][key], formats[key])
       THEN /\ pc' = "error"
            /\ raised' = "ValueError"
            /\ UNCHANGED psrtable
       ELSE /\ psrtable' = [j \in 1..Len(psrlist) |->
                               [key \in DOMAIN formats |-> Cast(psrlist[j][key], formats[key])]]
            /\ pc' = "done"
            /\ UNCHANGED raised
    /\ UNCHANGED <<psrlist, formats, dataline, nlines, nbreak, dropped>>
    /\ UNCHANGED condvars

CatNext == ScanLine \/ DelLast \/ Derive \/ FillIn \/ BuildTable

vars == <<catvars, condvars>>

Spec == CatInit /\ [][CatNext]_vars

(***************************************************************************)
(* The decoding of one data line, for values and errors of every shape:    *)
(* a value is [part:]digits[.digits][(e|E|D)exponent].                     *)
(***************************************************************************)
ValuePrefixes == {"", "-", "12:30:", "x"}

ValueWholes == {"1", "20", ""}

\* "", "." and a point with 1 .. MaxPlaces digits
ValueFractions == {""} \cup {"." \o SubSeq("23456789", 1, k) : k \in 0..MaxPlaces}

ValueExponents ==
    {""} \cup {mark \o sign \o NatStr(x) :
                  mark \in {"E", "e", "D"}, sign \in {"", "-", "+"}, x \in 0..MaxExponent}

ValueTokens ==
    {pre \o whole \o frac \o ex :
        pre \in ValuePrefixes, whole \in ValueWholes,
        frac \in ValueFractions, ex \in ValueExponents} \ {""}

ThirdTokens == {"5", "7", "12", "-3", "0.5", "2e1", "ref1"}

FieldLines ==
    {<<"F0", val, third>> : val \in ValueTokens, third \in ThirdTokens}
        \cup {<<"F0", val, "5", "ref2">> : val \in {"1.23456", "1.23E-2"}}

\* get_catalogue on a file whose first line is a data line of FieldLines
ScanField == nlines = 0 /\ ScanLineOf(FieldLines)

FieldNext == ScanField

FieldSpec == CatInit /\ [][FieldNext]_vars

(***************************************************************************)
(* condition: the query handed to the evaluator.                           *)
(*                                                                         *)
(* tab.query(expr) of pandas is not code of this module.  It is modelled   *)
(* by what decides whether it raises: expr must be a well-formed boolean   *)
(* expression of names, numbers, strings, comparisons, &, |, ~ and         *)
(* brackets, and each of its names must be a column of tab.  Which rows a  *)
(* well-formed query selects is left open: any selection of the rows.      *)
(***************************************************************************)
LowerCase == <<"a", "b", "c", "d", "e", "f", "g", "h", "i", "j", "k", "l", "m",
               "n", "o", "p", "q", "r", "s", "t", "u", "v", "w", "x", "y", "z">>

UpperCase == <<"A", "B", "C", "D", "E", "F", "G", "H", "I", "J", "K", "L", "M",
               "N", "O", "P", "Q", "R", "S", "T", "U", "V", "W", "X", "Y", "Z">>

Letters == {LowerCase[n] : n \in 1..26} \cup {UpperCase[n] : n \in 1..26}

UpperChar(c) ==
    IF \E n \in 1..26 : LowerCase[n] = c
    THEN UpperCase[CHOOSE n \in 1..26 : LowerCase[n] = c]
    ELSE c

\* str.upper()
RECURSIVE Upper(_)
Upper(s) == IF Len(s) = 0 THEN "" ELSE UpperChar(Char(s, 1)) \o Upper(SubSeq(s, 2, Len(s)))

\* ''.join(list)
RECURSIVE Join(_)
Join(list) == IF Len(list) = 0 THEN "" ELSE Head(list) \o Join(Tail(list))

WordChars == Letters \cup Digits \cup {"_", "."}

Quote == "\""

\* the first position from p on at which s has no character of cs
RECURSIVE RunEnd(_, _, _)
RunEnd(s, cs, p) == IF p <= Len(s) /\ Char(s, p) \in cs THEN RunEnd(s, cs, p + 1) ELSE p

\* the kind of a word of the query
WordKind(w) ==
    IF w = "and" THEN "and"
    ELSE IF w = "or" THEN "or"
    ELSE IF w = "not" THEN "not"
    ELSE IF w \in {"None", "True", "False"} THEN "const"
    ELSE IF Char(w, 1) \in Digits \cup {"."} THEN (IF IsFloat(w) THEN "num" ELSE "bad")
    ELSE IF Contains(w, ".") THEN "bad"
    ELSE "name"

Lexeme(k, v) == [k |-> k, v |-> v]

\* the lexemes of the query string s from position p on; a character that
\* starts no lexeme gives a lexeme of kind "bad"
RECURSIVE LexFrom(_, _)
LexFrom(s, p) ==
    IF p > Len(s) THEN << >>
    ELSE LET c   == Char(s, p)
             two == IF p < Len(s) THEN SubSeq(s, p, p + 1) ELSE ""
         IN  IF c = " " THEN LexFrom(s, p + 1)
             ELSE IF c \in WordChars
             THEN LET q == RunEnd(s, WordChars, p)
                      w == SubSeq(s, p, q - 1)
                  IN  <<Lexeme(WordKind(w), w)>> \o LexFrom(s, q)
             ELSE IF c = "@"
             THEN LET q == RunEnd(s, WordChars, p + 1)
                      w == SubSeq(s, p + 1, q - 1)
                  IN  IF q > p + 1 /\ WordKind(w) = "name"
                      THEN <<Lexeme("local", w)>> \o LexFrom(s, q)
                      ELSE <<Lexeme("bad", c)>>
             ELSE IF c = Quote
             THEN LET q == RunEnd(s, WordChars \cup {" ", "+", "-"}, p + 1)
                  IN  IF q <= Len(s) /\ Char(s, q) = Quote
                      THEN <<Lexeme("str", SubSeq(s, p + 1, q - 1))>> \o LexFrom(s, q + 1)
                      ELSE <<Lexeme("bad", c)>>
             ELSE IF Len(two) = 2 /\ two \in {"==", "!=", "<=", ">="}
             THEN <<Lexeme("cmp", two)>> \o LexFrom(s, p + 2)
             ELSE IF c \in {"<", ">"} THEN <<Lexeme("cmp", c)>> \o LexFrom(s, p + 1)
             ELSE IF c = "&" THEN <<Lexeme("and", c)>> \o LexFrom(s, p + 1)
             ELSE IF c = "|" THEN <<Lexeme("or", c)>> \o LexFrom(s, p + 1)
             ELSE IF c = "~" THEN <<Lexeme("inv", c)>> \o LexFrom(s, p + 1)
             ELSE IF c \in {"(", ")"} THEN <<Lexeme(c, c)>> \o LexFrom(s, p + 1)
             ELSE <<Lexeme("bad", c)>>

Lex(s) == LexFrom(s, 1)

KindAt(l, p) == IF p >= 1 /\ p <= Len(l) THEN l[p].k ELSE "end"

\* The parse of an expression of the lexemes l from position p: the position
\* after it, or 0 when there is none.
\*   or    := and ( '|' and )*          and   := not ( '&' not )*
\*   not   := 'not' not | cmp           cmp   := unary ( cmpop unary )*
\*   unary := '~' unary | atom          atom  := name | number | string
\*                                               | @name | '(' or ')'
RECURSIVE ParseOr(_, _), ParseAnd(_, _), ParseNot(_, _), ParseCmp(_, _),
          ParseUnary(_, _), ParseAtom(_, _)
ParseOr(l, p) ==
    LET q == ParseAnd(l, p)
    IN  IF q # 0 /\ KindAt(l, q) = "or" THEN ParseOr(l, q + 1) ELSE q

ParseAnd(l, p) ==
    LET q == ParseNot(l, p)
    IN  IF q # 0 /\ KindAt(l, q) = "and" THEN ParseAnd(l, q + 1) ELSE q

ParseNot(l, p) == IF KindAt(l, p) = "not" THEN ParseNot(l, p + 1) ELSE ParseCmp(l, p)

ParseCmp(l, p) ==
    LET q == ParseUnary(l, p)
    IN  IF q # 0 /\ KindAt(l, q) = "cmp" THEN ParseCmp(l, q + 1) ELSE q

ParseUnary(l, p) == IF KindAt(l, p) = "inv" THEN ParseUnary(l, p + 1) ELSE ParseAtom(l, p)

ParseAtom(l, p) ==
    IF KindAt(l, p) \in {"name", "num", "str", "local", "const"} THEN p + 1
    ELSE IF KindAt(l, p) = "("
    THEN LET q == ParseOr(l, p + 1)
         IN  IF q # 0 /\ KindAt(l, q) = ")" THEN q + 1 ELSE 0
    ELSE 0

\* the query string is a well-formed expression
WellFormed(expr) ==
    LET l == Lex(expr) IN Len(l) > 0 /\ ParseOr(l, 1) = Len(l) + 1

\* the names of the query string
NamesOf(expr) == LET l == Lex(expr) IN {l[p].v : p \in {q \in 1..Len(l) : l[q].k = "name"}}

\* the exception that frame.query(expr) raises, "" when it returns
QueryRaises(frame, expr) ==
    IF expr = "" THEN "ValueError"
    ELSE IF ~WellFormed(expr) THEN "SyntaxError"
    ELSE IF ~(NamesOf(expr) \subseteq frame.cols) THEN "UndefinedVariableError"
    ELSE ""

(***************************************************************************)
(* condition: the arguments.                                               *)
(***************************************************************************)
AllColumns == {"F0", "F0_ERR", "ASSOC", "TYPE", "BINARY", "BINCOMP"}

\* a table of n rows: the rows are named 1 .. n
TableOf(type, cols, n) == [type |-> type, cols |-> cols, rows |-> [r \in 1..n |-> r]]

Tables ==
    {TableOf("Table", AllColumns, MaxRows), TableOf("DataFrame", {"F0"}, 1),
     TableOf("Table", {"F0", "F0_ERR"}, 0), TableOf("dict", {"F0", "F0_ERR"}, 1)}

\* the tokens that the split of LOGEXPRS gives as separators
LogExprs ==
    {"AND", "and", "&&", "OR", "or", "||", "!=", "==", "<=", ">=", "<", ">", "(", ")",
     "NOT", "not", "!", "~", "ASSOC", "assoc", "TYPE", "type", "BINCOMP", "bincomp",
     "EXIST", "exist", "ERROR", "error"}

\* lines 696-698 give no two neighbouring tokens that are both no separator:
\* the text between two separators is one token
IsTokenList(toks) ==
    \A k \in 1..(Len(toks) - 1) : toks[k] \in LogExprs \/ toks[k + 1] \in LogExprs

Clauses ==
    { <<"F0", ">", "100">>, <<"(", "F0", "<", "5", ")">>,
      <<"EXIST", "(", "P1", ")">>, <<"exist", "(", "F0", ")">>,
      <<"TYPE", "(", "BINARY", ")">>, <<"ASSOC", "(", "GC", ")">>,
      <<"bincomp", "(", "MS", ")">>, <<"ERROR", "(", "F0", ")">>,
      <<"ERROR", "(", "P1", ")">>, <<"EXIST", "P1">>, <<"TYPE", "(", "HE", "&&">> }

Connectives ==
    {<<"&&">>, <<"OR">>, <<"NOT">>, << >>,
     <<"AND", "!">>, <<"||", "not">>, <<"and">>, <<"or", "~">>}

\* the queries of n clauses
RECURSIVE QueriesOf(_)
QueriesOf(n) ==
    IF n = 1 THEN Clauses
    ELSE {q \o c \o cl : q \in QueriesOf(n - 1), c \in Connectives, cl \in Clauses}

\* the token lists of at most MaxTokens tokens: the queries and what is left
\* of a query that is cut short
TokenLists ==
    LET all == UNION {QueriesOf(n) : n \in 1..((MaxTokens + 3) \div 4)}
        upto(q) == IF Len(q) < MaxTokens THEN Len(q) ELSE MaxTokens
        cut == UNION {{SubSeq(q, 1, k) : k \in 0..upto(q)} : q \in all}
    IN  {toks \in cut : IsTokenList(toks)}

StrExpr(toks) == [type |-> "str", tokens |-> toks, dtype |-> "", mask |-> << >>]

ArrayExpr(dtype, mask) == [type |-> "ndarray", tokens |-> << >>, dtype |-> dtype, mask |-> mask]

\* an expression that is neither a string nor an array
OtherExpr == [type |-> "list", tokens |-> << >>, dtype |-> "", mask |-> << >>]

\* the arrays of at most MaxRows + 1 entries; the entries of an array that
\* is not boolean stand for its numbers
ArrayExprs ==
    {ArrayExpr(dtype, mask) :
        dtype \in {"bool", "int64"},
        mask \in UNION {[1..n -> BOOLEAN] : n \in 0..(MaxRows + 1)}}

Expressions == {StrExpr(toks) : toks \in TokenLists} \cup ArrayExprs \cup {OtherExpr}

(***************************************************************************)
(* condition (lines 638-794).                                              *)
(***************************************************************************)
CatIdle ==
    /\ pc = "idle"
    /\ psrlist = << >>
    /\ formats = EmptyDict
    /\ dataline = << >>
    /\ nlines = 0
    /\ nbreak = 0
    /\ dropped = << >>
    /\ psrtable = << >>
    /\ raised = ""

CondInit ==
    /\ cpc = "enter"
    /\ table \in Tables
    /\ expression \in Expressions
    /\ exactMatch \in BOOLEAN
    /\ tokens = << >>
    /\ i = 0
    /\ newtokens = << >>
    /\ tab = [cols |-> {}, rows |-> << >>]
    /\ newtab = << >>
    /\ cwarn = << >>
    /\ craised = ""
    /\ CatIdle

matchTypes == {"ASSOC", "TYPE", "BINCOMP", "EXIST", "ERROR"}

\* tokens[k] of Python: the index k is 0-based
Tok(k) == tokens[k + 1]

ntokens == Len(tokens)

Raise(exc) ==
    /\ cpc' = "error"
    /\ craised' = exc

\* the rows of a sequence that a mask selects
RECURSIVE Select(_, _)
Select(rows, mask) ==
    IF Len(rows) = 0 THEN << >>
    ELSE (IF Head(mask) THEN <<Head(rows)>> ELSE << >>) \o Select(Tail(rows), Tail(mask))

\* len(table): the number of rows of a Table and of a DataFrame, the number
\* of keys of a dict
LenOf(t) == IF t.type = "dict" THEN Cardinality(t.cols) ELSE Len(t.rows)

\* lines 683-690 with the two checks in the other order
EnterArray_LengthFirst ==
    /\ expression.type = "ndarray"
    /\ IF Len(expression.mask) # LenOf(table)
       THEN Raise("Exception") /\ UNCHANGED newtab
       ELSE IF expression.dtype # "bool"
       THEN Raise("TypeError") /\ UNCHANGED newtab
       ELSE IF table.type \notin {"Table", "DataFrame"}
       THEN Raise("TypeError") /\ UNCHANGED newtab
       ELSE /\ newtab' = <<[type |-> table.type, cols |-> table.cols,
                            rows |-> Select(table.rows, expression.mask)]>>
            /\ cpc' = "done"
            /\ UNCHANGED craised
    /\ UNCHANGED <<tokens, tab>>

\* lines 683-690: the expression is an array; table[expression] of a dict
\* raises TypeError, an array being no key
EnterArray ==
    /\ expression.type = "ndarray"
    /\ IF expression.dtype # "bool"
       THEN Raise("TypeError") /\ UNCHANGED newtab
       ELSE IF Len(expression.mask) # LenOf(table)
       THEN Raise("Exception") /\ UNCHANGED newtab
       ELSE IF table.type \notin {"Table", "DataFrame"}
       THEN Raise("TypeError") /\ UNCHANGED newtab
       ELSE /\ newtab' = <<[type |-> table.type, cols |-> table.cols,
                            rows |-> Select(table.rows, expression.mask)]>>
            /\ cpc' = "done"
            /\ UNCHANGED craised
    /\ UNCHANGED <<tokens, tab>>

\* lines 692-712: the expression is no array
EnterString ==
    /\ expression.type # "ndarray"
    /\ IF expression.type # "str"
       THEN Raise("TypeError") /\ UNCHANGED <<tokens, tab>>
       ELSE IF table.type \notin {"Table", "DataFrame"}
       THEN /\ Raise("TypeError")
            /\ tokens' = expression.tokens
            /\ UNCHANGED tab
       ELSE /\ tokens' = expression.tokens
            /\ tab' = [cols |-> table.cols, rows |-> table.rows]
            /\ cpc' = "loop"
            /\ UNCHANGED craised
    /\ UNCHANGED newtab

\* lines 683-712: the call of condition, up to the loop over the tokens
Enter ==
    /\ cpc = "enter"
    /\ (EnterArray \/ EnterString)
    /\ UNCHANGED <<table, expression, exactMatch, i, newtokens, cwarn>>
    /\ UNCHANGED catvars

\* a variant that takes the synonyms of | for synonyms of &
Synonym_OrIsAnd(t) ==
    IF t \in {"&&", "AND", "||", "OR"} THEN "&"
    ELSE IF t \in {"!", "NOT", "not"} THEN "~"
    ELSE ""

\* lines 715-723: the synonyms of &, | and ~
Synonym(t) ==
    IF t \in {"&&", "AND"} THEN "&"
    ELSE IF t \in {"||", "OR"} THEN "|"
    ELSE IF t \in {"!", "NOT", "not"} THEN "~"
    ELSE ""

\* lines 730-772, for a keyword followed by '(' arg ')' other than an EXIST
\* of a column that the table does not have: the token appended ("" when
\* there is none) and the warning (0 or 1)
Rewrite(keyword, arg) ==
    LET Drop       == [token |-> "", warn |-> <<"not in table">>]
        Give(tk)   == [token |-> tk, warn |-> << >>]
        Match(col, local) ==
            IF col \notin tab.cols THEN Drop
            ELSE IF exactMatch THEN Give("(" \o col \o " == " \o Quote \o arg \o Quote \o ")")
            ELSE Give("(@" \o local \o ")")
    IN  CASE keyword = "ASSOC" -> Match("ASSOC", "assoc")
          [] keyword = "TYPE" ->
                IF Upper(arg) = "BINARY"
                THEN IF "BINARY" \notin tab.cols THEN Drop
                     ELSE Give("(BINARY != " \o Quote \o "None" \o Quote \o ")")
                ELSE Match("TYPE", "ttype")
          [] keyword = "BINCOMP" -> Match("BINCOMP", "bincomp")
          [] keyword = "EXIST" -> Give("(" \o arg \o " != None)")
          [] keyword = "ERROR" ->
                IF (arg \o "_ERR") \notin tab.cols THEN Drop ELSE Give(arg \o "_ERR")

\* lines 724-773: a keyword of matchTypes at the cursor
StepKeyword ==
    LET keyword == Upper(Tok(i))
        warning == <<"must be followed by (NAME)">>
    IN  /\ keyword \in matchTypes
        /\ Synonym(Tok(i)) = ""
        /\ IF ntokens < i + 3
           THEN /\ cwarn' = cwarn \o warning
                /\ i' = i + 3
                /\ UNCHANGED <<newtokens, tab, cpc, craised>>
           ELSE IF Tok(i + 1) # "("
           THEN /\ cwarn' = cwarn \o warning
                /\ i' = i + 3
                /\ UNCHANGED <<newtokens, tab, cpc, craised>>
           ELSE IF i + 3 >= ntokens
           THEN \* tokens[i+3] raises IndexError
                /\ Raise("IndexError")
                /\ UNCHANGED <<newtokens, tab, i, cwarn>>
           ELSE IF Tok(i + 3) # ")"
           THEN /\ cwarn' = cwarn \o warning
                /\ i' = i + 3
                /\ UNCHANGED <<newtokens, tab, cpc, craised>>
           ELSE IF keyword = "EXIST" /\ Tok(i + 2) \notin tab.cols
           THEN \* lines 761-765: an empty DataFrame, and the loop is left
                /\ cwarn' = cwarn \o <<"does not exist">>
                /\ tab' = [cols |-> table.cols, rows |-> << >>]
                /\ cpc' = "eval"
                /\ UNCHANGED <<newtokens, i, craised>>
           ELSE LET r == Rewrite(keyword, Tok(i + 2))
                IN  /\ newtokens' = IF r.token = "" THEN newtokens
                                    ELSE Append(newtokens, r.token)
                    /\ cwarn' = cwarn \o r.warn
                    /\ i' = i + 3
                    /\ UNCHANGED <<tab, cpc, craised>>

\* lines 715-723 and 774-777: a synonym or any other token at the cursor
StepToken ==
    /\ Synonym(Tok(i)) # "" \/ Upper(Tok(i)) \notin matchTypes
    /\ newtokens' = Append(newtokens, IF Synonym(Tok(i)) # "" THEN Synonym(Tok(i)) ELSE Tok(i))
    /\ i' = i + 1
    /\ UNCHANGED <<tab, cpc, craised, cwarn>>

\* one iteration of "while i < ntokens"
Step ==
    /\ cpc = "loop"
    /\ i < ntokens
    /\ (StepKeyword \/ StepToken)
    /\ UNCHANGED <<table, expression, exactMatch, tokens, newtab>>
    /\ UNCHANGED catvars

\* lines 779-794 with a query made in place: tab is the table itself when
\* the table is a DataFrame (line 706)
Evaluate_InPlace ==
    /\ cpc = "eval" \/ (cpc = "loop" /\ i >= ntokens)
    /\ LET expr == Join(newtokens)
       IN  IF QueryRaises(tab, expr) # ""
           THEN /\ Raise(QueryRaises(tab, expr))
                /\ UNCHANGED <<newtab, table>>
           ELSE /\ \E mask \in [1..Len(tab.rows) -> BOOLEAN] :
                      /\ newtab' = <<[type |-> table.type, cols |-> tab.cols,
                                      rows |-> Select(tab.rows, mask)]>>
                      /\ table' = IF table.type = "DataFrame"
                                  THEN [table EXCEPT !.rows = Select(tab.rows, mask)]
                                  ELSE table
                /\ cpc' = "done"
                /\ UNCHANGED craised
    /\ UNCHANGED <<expression, exactMatch, tokens, i, newtokens, tab, cwarn>>
    /\ UNCHANGED catvars

\* lines 779-794: the query of tab, after the loop or after its break; query
\* gives a new DataFrame and leaves tab as it is
Evaluate ==
    /\ cpc = "eval" \/ (cpc = "loop" /\ i >= ntokens)
    /\ LET expr == Join(newtokens)
       IN  IF QueryRaises(tab, expr) # ""
           THEN /\ Raise(QueryRaises(tab, expr))
                /\ UNCHANGED newtab
           ELSE /\ \E mask \in [1..Len(tab.rows) -> BOOLEAN] :
                      newtab' = <<[type |-> table.type, cols |-> tab.cols,
                                   rows |-> Select(tab.rows, mask)]>>
                /\ cpc' = "done"
                /\ UNCHANGED craised
    /\ UNCHANGED <<table, expression, exactMatch, tokens, i, newtokens, tab, cwarn>>
    /\ UNCHANGED catvars

CondNext == Enter \/ Step \/ Evaluate

CondSpec == CondInit /\ [][CondNext]_vars

(***************************************************************************)
(* Properties of get_catalogue.                                            *)
(***************************************************************************)
Rows(list) == 1..Len(list)

\* the records of the input: one closed by each break line, and the last
\* one when it holds a field
RecordsOfInput == nbreak + (IF dropped # << >> /\ dropped[1] # EmptyDict THEN 1 ELSE 0)

\* C1: the table returned has one row for each record of the input: only an
\* empty last record is discarded, so that two records with one break line
\* between them give a table of two rows.
C1_OneRowPerRecord == pc = "done" => Len(psrtable) = RecordsOfInput

\* C2: from the fill-in on, every entry of psrlist and every row of the
\* table has exactly the keys of formats, and at no point of the load does
\* an entry hold a key that formats does not.
C2_RowsHaveRegistryColumns ==
    /\ pc # "error" => \A j \in Rows(psrlist) : DOMAIN psrlist[j] \subseteq DOMAIN formats
    /\ pc \in {"table", "done"} => \A j \in Rows(psrlist) : DOMAIN psrlist[j] = DOMAIN formats
    /\ pc = "done" => /\ Len(psrtable) = Len(psrlist)
                      /\ \A j \in Rows(psrtable) : DOMAIN psrtable[j] = DOMAIN formats

\* a table of two rows of which one lacks a column that the other has
C2_Witness ==
    /\ pc = "done"
    /\ Len(psrtable) >= 2
    /\ \E j \in Rows(psrtable) : \E key \in DOMAIN formats :
          /\ psrlist[j][key] = None
          /\ psrtable[j][key] \in {NaN, StrV("None")}
    /\ "F0_REF" \in DOMAIN formats

\* C3: the scan of a line whose first token begins with '#' changes neither
\* psrlist nor formats; the scan of a line whose first token begins with '@'
\* leaves formats and every entry of psrlist as they are and appends an
\* empty entry, whatever tokens follow the first.
C3_CommentAndBreakAddNoField ==
    [][(pc = "scan" /\ nlines' = nlines + 1 /\ Len(dataline') > 0)
          => /\ Char(dataline'[1], 1) = "#"
                  => (psrlist' = psrlist /\ formats' = formats /\ pc' = "scan")
             /\ Char(dataline'[1], 1) = "@"
                  => /\ formats' = formats
                     /\ psrlist' = Append(psrlist, EmptyDict)
                     /\ pc' = "scan"]_vars

\* a break line with further tokens has been scanned after a field
C3_Witness ==
    /\ pc = "scan"
    /\ dataline = <<"@", "F0", "7", "2">>
    /\ Len(psrlist) = 2
    /\ DOMAIN psrlist[1] # {}
    /\ psrlist[2] = EmptyDict

\* the line scanned last is a data line FIELD VALUE ERR [REF] with a numeric
\* ERR, and its decoding did not raise
ErrLineDecoded ==
    /\ pc = "scan"
    /\ Len(dataline) >= 3
    /\ IsDataLine(dataline)
    /\ IsFloat(dataline[3])

\* the value stored under FIELD_ERR by the line scanned last
StoredErr == Last(psrlist)[dataline[1] \o "_ERR"]

\* the mantissa and the exponent of the last colon-separated part of a value
MantissaOf(valtok) == Split(Last(Split(valtok, {":"})), {"e", "E"})[1]

ExponentOf(valtok) ==
    LET parts == Split(Last(Split(valtok, {":"})), {"e", "E"})
    IN  IF Len(parts) = 2 THEN IntVal(parts[2]) ELSE 0

\* the number of digits after the decimal point of a mantissa
PlacesOf(mant) ==
    Cardinality({q \in Positions(mant, Digits) : \E r \in Positions(mant, {"."}) : r < q})

\* C4: for a data line FIELD VALUE ERR with a numeric ERR, the value stored
\* under FIELD_ERR is ERR itself when ERR starts with '-' or contains '.',
\* and ERR * 10^(x - d) otherwise, d being the number of digits after the
\* point in the mantissa of the last colon-separated part of VALUE and x its
\* exponent; "1.23456" with "7" gives 0.00007.
C4_ErrorScaling ==
    ErrLineDecoded =>
        LET err == FloatVal(dataline[3])
            x   == ExponentOf(dataline[2])
            d   == PlacesOf(MantissaOf(dataline[2]))
        IN  /\ (dataline[1] \o "_ERR") \in DOMAIN Last(psrlist)
            /\ StoredErr = IF Char(dataline[3], 1) = "-" \/ Contains(dataline[3], ".")
                           THEN NumV(err)
                           ELSE NumV(Norm(err.m, err.e + x - d))
            /\ (dataline[2] = "1.23456" /\ dataline[3] = "7")
                  => StoredErr = NumV([m |-> 7, e |-> -5])

\* a last-digit error has been scaled by the places and by the exponent of
\* a sexagesimal value
C4_Witness ==
    /\ ErrLineDecoded
    /\ dataline[2] = "12:30:20.234e-1"
    /\ dataline[3] = "12"
    /\ StoredErr = NumV([m |-> 12, e |-> -4])

\* C5 as stated: the value "1.23E-2" with the uncertainty "5" stores the
\* error 5e-7.
C5_ErrorOfExponentValue_Stated ==
    (ErrLineDecoded /\ dataline[2] = "1.23E-2" /\ dataline[3] = "5")
        => StoredErr = NumV([m |-> 5, e |-> -7])

\* C5, amended: the value "1.23E-2" with the uncertainty "5" stores the
\* error 5e-4: five units of the last digit of 0.0123.
C5_ErrorOfExponentValue ==
    (ErrLineDecoded /\ dataline[2] = "1.23E-2" /\ dataline[3] = "5")
        => StoredErr = NumV([m |-> 5, e |-> -4])

C5_Witness ==
    /\ ErrLineDecoded
    /\ dataline = <<"F0", "1.23E-2", "5", "ref2">>
    /\ "F0_ERR" \in DOMAIN Last(psrlist)
    /\ Last(psrlist)["F0"] = NumV([m |-> 123, e |-> -4])

\* the line scanned last is a data line with a numeric third token and a
\* value whose last colon-separated part is no number
ErrLineOfNoNumber ==
    /\ Len(dataline) >= 3
    /\ IsDataLine(dataline)
    /\ IsFloat(dataline[3])
    /\ ~IsFloat(Last(Split(dataline[2], {":"})))

\* C6: a data line with a numeric third token and a value whose last
\* colon-separated part is no number makes get_catalogue raise ValueError,
\* and no table is returned.
C6_ValueWithErrorMustBeNumeric ==
    ErrLineOfNoNumber => (pc = "error" /\ raised = "ValueError" /\ psrtable = << >>)

\* the sexagesimal value 12:30:0x with the error 3 has been scanned
C6_Witness ==
    /\ ErrLineOfNoNumber
    /\ dataline = <<"RAJ", "12:30:0x", "3">>
    /\ pc = "error"
    /\ nbreak >= 1

\* C7: the step that derives RAJD and DECJD never aborts the load: an entry
\* whose RAJ and DECJ are not both angles gets None for RAJD and DECJD, and
\* every other entry gets its own.
C7_MalformedPairGivesNull ==
    [][pc = "derive"
          => /\ pc' = "fill"
             /\ \A j \in Rows(psrlist) :
                   CoordRaises(psrlist[j])
                      => /\ {"RAJD", "DECJD"} \subseteq DOMAIN psrlist'[j]
                         /\ psrlist'[j]["RAJD"] = None
                         /\ psrlist'[j]["DECJD"] = None]_vars

\* the entry psr holds a value for the field key
Holds(psr, key) == key \in DOMAIN psr /\ psr[key] # None

\* the value of the column key in the row row of the table, None when the
\* row has no such column or holds the null of a text column there
CellOf(row, key) ==
    IF key \in DOMAIN row /\ row[key] # StrV("None") THEN row[key] ELSE None

\* C8: in every row of the table returned, JNAME is PSRJ when the record has
\* PSRJ, BNAME is PSRB when it has PSRB, and NAME is PSRJ when the record has
\* PSRJ, else PSRB when it has PSRB, else null.
C8_NamesFollowIdentifiers ==
    pc = "done" =>
        \A j \in Rows(psrtable) :
            LET psr  == psrlist[j]
                row  == psrtable[j]
                hasJ == Holds(psr, "PSRJ")
                hasB == Holds(psr, "PSRB")
            IN  /\ hasJ => (row["JNAME"] = StrV(psr["PSRJ"].s) /\ row["JNAME"] = row["PSRJ"])
                /\ hasB => (row["BNAME"] = StrV(psr["PSRB"].s) /\ row["BNAME"] = row["PSRB"])
                /\ CellOf(row, "NAME") = IF hasJ THEN row["PSRJ"]
                                         ELSE IF hasB THEN row["PSRB"]
                                         ELSE None

\* a table with a row of both identifiers, whose NAME is the PSRJ
C8_Witness ==
    /\ pc = "done"
    /\ \E j \in Rows(psrtable) :
          /\ Holds(psrlist[j], "PSRJ") /\ Holds(psrlist[j], "PSRB")
          /\ psrtable[j]["NAME"] = psrtable[j]["PSRJ"]
          /\ psrtable[j]["NAME"] # psrtable[j]["PSRB"]

\* the step scans a data line FIELD VALUE ...
ScansDataLine ==
    /\ pc = "scan"
    /\ nlines' = nlines + 1
    /\ IsDataLine(dataline')
    /\ Len(dataline') >= 2

\* the keys that the step adds to the record that is being filled
Gained == (DOMAIN Last(psrlist')) \ (DOMAIN Last(psrlist))

\* C16 as stated: no data line adds both FIELD_ERR and FIELD_REF to the
\* record.
C16_AtMostOneOfErrAndRef_Stated ==
    [][ScansDataLine
          => ~({dataline'[1] \o "_ERR", dataline'[1] \o "_REF"} \subseteq Gained)]_vars

\* C16, amended: a data line adds no key other than FIELD, FIELD_ERR and
\* FIELD_REF to the record and none to another record; it adds FIELD_ERR
\* only when its third token is a number, FIELD_REF only when its third token
\* is no number or it has a fourth token, and both only when it has a
\* numeric third token and a fourth token.
C16_AtMostOneOfErrAndRef ==
    [][ScansDataLine
          => LET line  == dataline'
                 field == line[1]
                 err   == field \o "_ERR"
                 ref   == field \o "_REF"
             IN  /\ Len(psrlist') = Len(psrlist)
                 /\ \A j \in 1..(Len(psrlist) - 1) : psrlist'[j] = psrlist[j]
                 /\ Gained \subseteq {field, err, ref}
                 /\ err \in Gained => (Len(line) > 2 /\ IsFloat(line[3]))
                 /\ ref \in Gained => (Len(line) > 3 \/ (Len(line) = 3 /\ ~IsFloat(line[3])))
                 /\ {err, ref} \subseteq Gained => (Len(line) > 3 /\ IsFloat(line[3]))]_vars

\* a line of four tokens has given the record both the error and the
\* reference of its field
C16_Witness ==
    /\ pc = "scan"
    /\ dataline = <<"F0", "1.2E-2", "5", "ref2">>
    /\ DOMAIN Last(psrlist) = {"F0", "F0_ERR", "F0_REF"}
    /\ Last(psrlist)["F0_ERR"] = NumV([m |-> 5, e |-> -3])
    /\ Last(psrlist)["F0_REF"] = StrV("ref2")
    /\ nlines = 1

\* the step leaves the key of the record that is being filled as it was
Kept(key) ==
    IF key \in DOMAIN Last(psrlist)
    THEN key \in DOMAIN Last(psrlist') /\ Last(psrlist')[key] = Last(psrlist)[key]
    ELSE key \notin DOMAIN Last(psrlist')

\* C17: a data line FIELD VALUE T3 [T4] that is decoded stores T3, scaled,
\* as the number under FIELD_ERR when T3 converts to a number, and as the
\* text under FIELD_REF otherwise; a T4 is stored as the text under
\* FIELD_REF, in place of a T3 stored there by the same line, and is not
\* stored under FIELD_ERR even when it converts to a number.
C17_ThirdAndFourthToken ==
    [][(ScansDataLine /\ pc' = "scan" /\ Len(dataline') > 2)
          => LET line  == dataline'
                 field == line[1]
                 err   == field \o "_ERR"
                 ref   == field \o "_REF"
                 after == Last(psrlist')
             IN  /\ IsFloat(line[3])
                      => /\ err \in DOMAIN after
                         /\ after[err] = NumV(ErrValue(line[2], line[3]))
                         /\ Len(line) = 3 => Kept(ref)
                 /\ ~IsFloat(line[3])
                      => /\ Kept(err)
                         /\ ref \in DOMAIN after
                         /\ Len(line) = 3 => after[ref] = StrV(line[3])
                 /\ Len(line) > 3
                      => /\ ref \in DOMAIN after
                         /\ after[ref] = StrV(line[4])]_vars

\* a numeric fourth token has replaced the reference taken from the third
\* token, and the record has no error
C17_Witness ==
    /\ pc = "scan"
    /\ dataline = <<"F0", "2", "ref1", "7">>
    /\ DOMAIN Last(psrlist) = {"F0", "F0_REF"}
    /\ Last(psrlist)["F0_REF"] = StrV("7")
    /\ formats["F0_REF"] = "unicode"

\* C18: no line of the scan changes or removes the type that formats holds
\* for a name; a data line whose field is not yet in formats registers
\* float64 for it when its value converts to a number and unicode otherwise,
\* and a later value of the other kind leaves that type as it is.
C18_FirstSightWins ==
    [][pc = "scan"
          => /\ \A key \in DOMAIN formats :
                   key \in DOMAIN formats' /\ formats'[key] = formats[key]
             /\ (ScansDataLine /\ dataline'[1] \notin DOMAIN formats)
                   => formats'[dataline'[1]] = IF IsFloat(dataline'[2]) THEN "float64"
                                               ELSE "unicode"]_vars

\* a field registered as a number by the first record has been given a text
\* by the second
C18_Witness ==
    /\ pc = "scan"
    /\ Len(psrlist) = 2
    /\ dataline = <<"F0", "abc">>
    /\ "F0" \in DOMAIN psrlist[1] /\ "F0" \in DOMAIN psrlist[2]
    /\ psrlist[1]["F0"] = NumV([m |-> 15, e |-> -1])
    /\ psrlist[2]["F0"] = StrV("abc")
    /\ formats["F0"] = "float64"

\* the row has a null in every column
AllNull(row) == \A key \in DOMAIN row : row[key] \in {None, NaN, StrV("None")}

\* C21: during the scan psrlist has one entry more than the break lines
\* scanned, the last being empty right after a break line whatever the entry
\* before it holds; after the scan the last entry is removed, empty or not,
\* so that the entries kept, and the rows of the table returned, are as many
\* as the break lines of the input.
C21_RowsEqualBreakLines ==
    /\ pc = "scan" => /\ Len(psrlist) = nbreak + 1
                      /\ dropped = << >>
                      /\ (Len(dataline) > 0 /\ Char(dataline[1], 1) = breakstring)
                            => Last(psrlist) = EmptyDict
    /\ pc \in {"derive", "fill", "table", "done"}
          => /\ Len(psrlist) = nbreak
             /\ Len(dropped) = 1
    /\ pc = "done" => Len(psrtable) = nbreak

\* a table of two rows from two break lines in a row: the second row is all
\* null, and the record after the break lines, which held a field, is gone
C21_Witness ==
    /\ pc = "done"
    /\ nbreak = 2
    /\ Len(psrtable) = 2
    /\ DOMAIN psrtable[1] # {}
    /\ ~AllNull(psrtable[1])
    /\ AllNull(psrtable[2])
    /\ dropped # << >>
    /\ dropped[1] # EmptyDict

(***************************************************************************)
(* Properties of condition.                                                *)
(***************************************************************************)
Warned(w) == \E k \in 1..Len(cwarn) : cwarn[k] = w

\* C9: once an EXIST of a column that the table does not have has been met,
\* condition returns a table of no row and raises nothing, whatever tokens
\* come before and after the predicate.
C9_ExistOfAbsentColumnGivesNoRow ==
    (Warned("does not exist") /\ cpc \in {"done", "error"})
        => (cpc = "done" /\ craised = "" /\ newtab[1].rows = << >>)

\* the keyword at position k (0-based) is followed by '(' arg ')'
FollowedByArg(k) == k + 3 < ntokens /\ Tok(k + 1) = "(" /\ Tok(k + 3) = ")"

\* C10: a keyword of matchTypes that is not followed by '(' arg ')' never
\* makes the loop raise: the iteration emits one warning and the loop goes
\* on, also when the tokens end one, two or three tokens after the keyword.
C10_MalformedPredicateOnlyWarns ==
    [][(cpc = "loop" /\ i < ntokens /\ Upper(Tok(i)) \in matchTypes /\ ~FollowedByArg(i))
          => /\ cpc' = "loop"
             /\ craised' = ""
             /\ cwarn' = Append(cwarn, "must be followed by (NAME)")]_vars

\* the logical and comparison operators of a query
Operators ==
    {"AND", "and", "&&", "OR", "or", "||", "NOT", "not", "!", "~",
     "!=", "==", "<=", ">=", "<", ">"}

\* C11: the iteration that drops a keyword of matchTypes not followed by
\* '(' arg ')' appends nothing and passes over no logical or comparison
\* operator: every operator that follows the keyword is still examined, and
\* so emitted, by a later iteration.
C11_DroppedPredicateKeepsOperators ==
    [][(cpc = "loop" /\ i < ntokens /\ Upper(Tok(i)) \in matchTypes /\ ~FollowedByArg(i)
          /\ cpc' = "loop")
          => /\ newtokens' = newtokens
             /\ \A k \in (i + 1)..(i' - 1) : k < ntokens => Tok(k) \notin Operators]_vars

\* the rows of the table that the mask of the expression marks as true
MaskedRows == {r \in 1..Len(table.rows) : expression.mask[r]}

\* the rows of a result are those of the set S, each once and in the order of
\* the table
IsSelection(res, S) ==
    /\ {res[k] : k \in 1..Len(res)} = {table.rows[r] : r \in S}
    /\ Len(res) = Cardinality(S)
    /\ \A k \in 1..(Len(res) - 1) : res[k] < res[k + 1]

\* C12: an expression that is an array is never tokenized nor evaluated; it
\* raises TypeError when its dtype is not boolean, whatever its length, an
\* Exception when it is boolean and its length differs from the table's, and
\* otherwise condition returns, with the type and the columns of the table,
\* exactly the rows whose entry of the mask is true.  An expression that is
\* neither an array nor a string raises TypeError.
C12_MaskPath ==
    expression.type # "str" =>
        /\ cpc \in {"enter", "done", "error"}
        /\ tokens = << >> /\ newtokens = << >> /\ i = 0 /\ cwarn = << >>
        /\ tab = [cols |-> {}, rows |-> << >>]
        /\ cpc = "error" => newtab = << >>
        /\ cpc # "enter" =>
              IF expression.type # "ndarray"
              THEN cpc = "error" /\ craised = "TypeError"
              ELSE IF expression.dtype # "bool"
              THEN cpc = "error" /\ craised = "TypeError"
              ELSE IF Len(expression.mask) # LenOf(table)
              THEN cpc = "error" /\ craised = "Exception"
              ELSE table.type \in {"Table", "DataFrame"} =>
                      /\ cpc = "done" /\ craised = ""
                      /\ newtab[1].type = table.type
                      /\ newtab[1].cols = table.cols
                      /\ IsSelection(newtab[1].rows, MaskedRows)

\* a mask that keeps the second of two rows has been applied
C12_Witness ==
    /\ cpc = "done"
    /\ expression.type = "ndarray"
    /\ expression.mask = <<FALSE, TRUE>>
    /\ Len(table.rows) = 2
    /\ newtab[1].rows = <<table.rows[2]>>

\* res is made of rows of the sequence rows, in their order
RECURSIVE IsSubSeq(_, _)
IsSubSeq(res, rows) ==
    IF Len(res) = 0 THEN TRUE
    ELSE IF Len(rows) = 0 THEN FALSE
    ELSE IF Head(res) = Head(rows) THEN IsSubSeq(Tail(res), Tail(rows))
    ELSE IsSubSeq(res, Tail(rows))

C14_RecognisedPredicateAdvancesByFour ==
    [][(cpc = "loop" /\ i < ntokens /\ Upper(Tok(i)) \in matchTypes /\ FollowedByArg(i)
          /\ cpc' = "loop")
          => i' = i + 4]_vars

\* the parentheses of the string s are balanced, depth being the number of
\* those open before the position p
RECURSIVE BalancedFrom(_, _, _)
BalancedFrom(s, p, depth) ==
    IF p > Len(s) THEN depth = 0
    ELSE IF Char(s, p) = "(" THEN BalancedFrom(s, p + 1, depth + 1)
    ELSE IF Char(s, p) = ")" THEN depth > 0 /\ BalancedFrom(s, p + 1, depth - 1)
    ELSE BalancedFrom(s, p + 1, depth)

Balanced(s) == BalancedFrom(s, 1, 0)

\* the column that the predicate keyword(arg) needs is in the table
TargetPresent(keyword, arg) ==
    CASE keyword = "ASSOC" -> "ASSOC" \in tab.cols
      [] keyword = "TYPE" -> IF Upper(arg) = "BINARY" THEN "BINARY" \in tab.cols
                             ELSE "TYPE" \in tab.cols
      [] keyword = "BINCOMP" -> "BINCOMP" \in tab.cols
      [] keyword = "EXIST" -> arg \in tab.cols
      [] keyword = "ERROR" -> (arg \o "_ERR") \in tab.cols

\* every keyword of matchTypes among the tokens is followed by '(' arg ')'
\* and has its column in the table
PredicatesComplete ==
    \A k \in 0..(ntokens - 1) :
        Upper(Tok(k)) \in matchTypes
            => (FollowedByArg(k) /\ TargetPresent(Upper(Tok(k)), Tok(k + 2)))

\* C15: at the end of the loop over a query whose parentheses are balanced
\* and whose predicates are all complete, the parentheses of the expression
\* handed to the evaluator are balanced.
C15_RewrittenParenthesesBalanced ==
    (cpc = "loop" /\ i >= ntokens /\ Balanced(Join(tokens)) /\ PredicatesComplete)
        => Balanced(Join(newtokens))

\* the token that stands for the token t in the query handed to the
\* evaluator
Canonical(t) ==
    CASE t \in {"&&", "AND"} -> "&"
      [] t \in {"||", "OR"} -> "|"
      [] t \in {"!", "NOT", "not"} -> "~"
      [] OTHER -> t

NoKeyword == \A k \in 0..(ntokens - 1) : Upper(Tok(k)) \notin matchTypes

\* C19: in the loop over tokens none of which is a keyword of matchTypes,
\* the tokens emitted are, one for each token examined and in the same order,
\* '&' for '&&' and 'AND', '|' for '||' and 'OR', '~' for '!', 'NOT' and
\* 'not', and the token itself for any other; nothing is warned or raised.
C19_SynonymsOneToOne ==
    (cpc = "loop" /\ NoKeyword)
        => /\ i <= ntokens
           /\ Len(newtokens) = i
           /\ \A k \in 0..(i - 1) : newtokens[k + 1] = Canonical(Tok(k))
           /\ cwarn = << >> /\ craised = ""

\* a query without keyword has been rewritten to its end: a 'not' has become
\* '~' and an 'or' is left as it is
C19_Witness ==
    /\ cpc = "loop"
    /\ NoKeyword
    /\ i = ntokens
    /\ ntokens >= 7
    /\ \E k \in 0..(ntokens - 1) : Tok(k) = "not" /\ newtokens[k + 1] = "~"
    /\ \E k \in 0..(ntokens - 1) : Tok(k) = "||" /\ newtokens[k + 1] = "|"
    /\ \E k \in 0..(ntokens - 1) : Tok(k) = "<" /\ newtokens[k + 1] = "<"

\* the largest index of tokens that the iteration at the cursor reads: the
\* guards of lines 725-727 read tokens[i+1] and, when that is '(',
\* tokens[i+3]
LastRead ==
    IF Upper(Tok(i)) \notin matchTypes \/ ntokens < i + 3 THEN i
    ELSE IF Tok(i + 1) # "(" THEN i + 1
    ELSE i + 3

\* C20: every iteration that stays in the loop moves the cursor forward and
\* past every token that it has read, so that no token is examined by two
\* iterations.
C20_TokensExaminedOnce ==
    [][(cpc = "loop" /\ i < ntokens /\ cpc' = "loop")
          => (i' > i /\ i' > LastRead)]_vars

=============================================================================
